---- MODULE Spec2Model ----
(***************************************************************************)
(* Verification model of doumdi/virtual-sound-card: the sine oscillator,   *)
(* the render loops and callbacks of the generator programs, and the       *)
(* WASAPI format negotiation.                                              *)
(*                                                                         *)
(* Arithmetic.  The oscillator phase is a double in the source.  The model *)
(* keeps it exactly, as a natural number of "ticks": the phase in radians  *)
(* is 2*pi*phase/sample_rate, so that the per-sample increment             *)
(* 2*pi*frequency/sample_rate is `frequency' ticks and 2*pi is             *)
(* `sample_rate' ticks.                                                    *)
(***************************************************************************)
EXTENDS Integers, Sequences, FiniteSets, TLC

VARIABLES
    \* ---- oscillator (common/sine_generator) ----
    osc_pc,             \* oscillator program: "idle", "args", "rejected", "running"
    gen,                \* sine_generator_t: [phase, frequency, sample_rate]
    samples_generated,  \* number of samples produced since sine_generator_init
    last_call,          \* the last process call: [encoding, num_samples]
    \* ---- generator programs (render loops and callbacks) ----
    program,            \* which generator program this run is
    ctx,                \* the program's shared state, fields named as in its source
    main_pc,            \* "idle", "playing" (stream started) or "closed"
    exit_code,          \* return value of main once closed, -1 before
    buffer,             \* the host buffer of the last callback / poll iteration
    tone_frames,        \* history: frames of oscillator output handed to the host
    stop_raised,        \* history: a signal / console handler has raised the stop flag
    cb_after_stop,      \* history: the last buffer was started after stop_raised
    accesses,           \* history: [ctx, op, var] accesses to the shared state
    \* ---- WASAPI format negotiation ----
    fmt_pc,             \* "idle", "mix_format", "negotiated", "rendering"
    pwfx,               \* the WAVEFORMATEX(TENSIBLE) descriptor the device reports
    format_info         \* what the negotiation decided

osc_vars == <<osc_pc, gen, samples_generated, last_call>>

render_vars == <<program, ctx, main_pc, exit_code, buffer, tone_frames,
                 stop_raised, cb_after_stop, accesses>>

fmt_vars == <<fmt_pc, pwfx, format_info>>

vars == <<osc_vars, render_vars, fmt_vars>>

(***************************************************************************)
(* Bounds of the model.                                                    *)
(***************************************************************************)
MaxSamples == 12        \* samples generated in one oscillator run
MaxBuffer == 3          \* largest num_samples of one process call
FramesPerSecond == 3    \* the stream's sample rate, scaled down
MaxDuration == 2        \* largest duration argument, in seconds
MaxFrames == 3          \* largest frame count of one host buffer

\* No run hands more frames than this to the host: a whole buffer past the
\* largest target.
MaxTotalFrames == FramesPerSecond * MaxDuration + MaxFrames

(***************************************************************************)
(* Command-line arguments tried: values inside, on the edge of and outside *)
(* the accepted ranges.                                                    *)
(***************************************************************************)
FrequencyArgs == {0, 440, 8000, 12000, 20000, 20001}
SampleRateArgs == {7999, 8000, 44100, 48000, 192000, 192001}

(***************************************************************************)
(* Configuration validation (option parsing of the sine device).           *)
(***************************************************************************)
MAX_FREQUENCY == 20000
MIN_SAMPLE_RATE == 8000
MAX_SAMPLE_RATE == 192000

ValidFrequency(frequency) == ~(frequency <= 0 \/ frequency > MAX_FREQUENCY)

ValidSampleRate(sample_rate) ==
    ~(sample_rate < MIN_SAMPLE_RATE \/ sample_rate > MAX_SAMPLE_RATE)

(***************************************************************************)
(* sine_generator_init: phase 0, frequency and sample rate as given.       *)
(***************************************************************************)
sine_generator_init(frequency, sample_rate) ==
    [phase |-> 0, frequency |-> frequency, sample_rate |-> sample_rate]

(***************************************************************************)
(* One iteration of the sample loop, on the phase:                         *)
(*     gen->phase += phase_increment;                                      *)
(*     if (gen->phase >= 2.0 * M_PI) gen->phase -= 2.0 * M_PI;             *)
(* A single subtraction, not a loop and not fmod.                          *)
(***************************************************************************)
AdvancePhase(g) ==
    LET p == g.phase + g.frequency
    IN  [g EXCEPT !.phase = IF p >= g.sample_rate THEN p - g.sample_rate ELSE p]

RECURSIVE ProcessSamples(_, _)
ProcessSamples(g, num_samples) ==
    IF num_samples = 0 THEN g
    ELSE ProcessSamples(AdvancePhase(g), num_samples - 1)

(***************************************************************************)
(* Oscillator program.                                                     *)
(***************************************************************************)
IdleOsc ==
    /\ osc_pc = "idle"
    /\ gen = [phase |-> 0, frequency |-> 0, sample_rate |-> 0]
    /\ samples_generated = 0
    /\ last_call = [encoding |-> "none", num_samples |-> 0]

IdleFormat ==
    /\ fmt_pc = "idle"
    /\ pwfx = [none |-> 0]
    /\ format_info = [none |-> 0]

IdleRender ==
    /\ program = "none"
    /\ ctx = [none |-> 0]
    /\ main_pc = "idle"
    /\ exit_code = -1
    /\ buffer = << >>
    /\ tone_frames = 0
    /\ stop_raised = FALSE
    /\ cb_after_stop = FALSE
    /\ accesses = {}

InitOsc ==
    /\ IdleRender
    /\ IdleFormat
    /\ last_call = [encoding |-> "none", num_samples |-> 0]
    /\ osc_pc = "args"
    /\ \E f \in FrequencyArgs, r \in SampleRateArgs :
           gen = [phase |-> 0, frequency |-> f, sample_rate |-> r]
    /\ samples_generated = 0

ParseArgsReject ==
    /\ osc_pc = "args"
    /\ ~(ValidFrequency(gen.frequency) /\ ValidSampleRate(gen.sample_rate))
    /\ osc_pc' = "rejected"
    /\ UNCHANGED <<gen, samples_generated, last_call, render_vars, fmt_vars>>

ParseArgsAccept ==
    /\ osc_pc = "args"
    /\ ValidFrequency(gen.frequency) /\ ValidSampleRate(gen.sample_rate)
    /\ osc_pc' = "running"
    /\ gen' = sine_generator_init(gen.frequency, gen.sample_rate)
    /\ UNCHANGED <<samples_generated, last_call, render_vars, fmt_vars>>

Process(encoding, num_samples) ==
    /\ osc_pc = "running"
    /\ samples_generated + num_samples <= MaxSamples
    /\ gen' = ProcessSamples(gen, num_samples)
    /\ samples_generated' = samples_generated + num_samples
    /\ last_call' = [encoding |-> encoding, num_samples |-> num_samples]
    /\ UNCHANGED <<osc_pc, render_vars, fmt_vars>>

sine_generator_process_f32 == \E n \in 1..MaxBuffer : Process("f32", n)
sine_generator_process_i16 == \E n \in 1..MaxBuffer : Process("i16", n)
sine_generator_process_i32 == \E n \in 1..MaxBuffer : Process("i32", n)

NextOsc ==
    \/ ParseArgsReject
    \/ ParseArgsAccept
    \/ sine_generator_process_f32
    \/ sine_generator_process_i16
    \/ sine_generator_process_i32

SpecOsc == InitOsc /\ [][NextOsc]_vars

(***************************************************************************)
(* C1.  For every (frequency, sample rate) the validation accepts, after   *)
(* any number of samples, in any encoding and with any buffer sizes, the   *)
(* phase lies in [0, 2*pi): in ticks, 0 <= phase < sample_rate.            *)
(***************************************************************************)
C1_PhaseInRange ==
    osc_pc = "running" => (0 <= gen.phase /\ gen.phase < gen.sample_rate)

CHANNELS == 2

(***************************************************************************)
(* WASAPI format negotiation (windows virtual_sine_device).                *)
(*                                                                         *)
(* A descriptor is the WAVEFORMATEX the device reports; when cbSize >= 22  *)
(* it is a WAVEFORMATEXTENSIBLE and carries SubFormat, a GUID              *)
(* <<Data1, Data2, Data3, Data4>>.  A descriptor with cbSize < 22 has no   *)
(* SubFormat field.                                                        *)
(***************************************************************************)
WAVE_FORMAT_PCM == 1
WAVE_FORMAT_IEEE_FLOAT == 3
WAVE_FORMAT_EXTENSIBLE == 65534         \* 0xFFFE
\* Tags the code does not know: ADPCM (2) and MPEG layer 3 (0x0055).
UnknownTags == {2, 85}

KSDATAFORMAT_SUBTYPE_IEEE_FLOAT == <<3, 0, 16, <<128, 0, 0, 170, 0, 56, 155, 113>>>>
KSDATAFORMAT_SUBTYPE_PCM == <<1, 0, 16, <<128, 0, 0, 170, 0, 56, 155, 113>>>>
\* Sub-formats the code does not know: ADPCM, and two that differ from the
\* PCM and the IEEE-float GUID in the last byte only.
KSDATAFORMAT_SUBTYPE_ADPCM == <<2, 0, 16, <<128, 0, 0, 170, 0, 56, 155, 113>>>>
NearPcmGuid == <<1, 0, 16, <<128, 0, 0, 170, 0, 56, 155, 114>>>>
NearFloatGuid == <<3, 0, 16, <<128, 0, 0, 170, 0, 56, 155, 114>>>>
NoSubFormat == << >>

FormatTags == {WAVE_FORMAT_PCM, WAVE_FORMAT_IEEE_FLOAT, WAVE_FORMAT_EXTENSIBLE}
                  \cup UnknownTags
SubFormats == {KSDATAFORMAT_SUBTYPE_IEEE_FLOAT, KSDATAFORMAT_SUBTYPE_PCM,
               KSDATAFORMAT_SUBTYPE_ADPCM, NearPcmGuid, NearFloatGuid}
BitDepths == {8, 16, 24, 32, 64}

Descriptors ==
    {[wFormatTag |-> t, nChannels |-> c, wBitsPerSample |-> b,
      cbSize |-> 22, SubFormat |-> g] :
        t \in {WAVE_FORMAT_EXTENSIBLE}, c \in {CHANNELS}, b \in BitDepths,
        g \in SubFormats}
    \cup
    {[wFormatTag |-> t, nChannels |-> c, wBitsPerSample |-> b,
      cbSize |-> 0, SubFormat |-> NoSubFormat] :
        t \in FormatTags, c \in {CHANNELS}, b \in BitDepths}

\* memcmp(a, b, sizeof(GUID)) == 0
guid_equals(a, b) == a = b

\* The negotiation that looks at the base tag alone.
get_audio_format_info_base_tag_only(d) ==
    LET unknown == [is_float |-> 0, bits_per_sample |-> d.wBitsPerSample,
                    format_name |-> "Unknown"]
    IN  IF d.wFormatTag = WAVE_FORMAT_IEEE_FLOAT
        THEN [unknown EXCEPT !.is_float = 1, !.format_name = "IEEE Float"]
        ELSE IF d.wFormatTag = WAVE_FORMAT_PCM
        THEN [unknown EXCEPT !.is_float = 0, !.format_name = "PCM"]
        ELSE unknown

get_audio_format_info(d) ==
    LET unknown == [is_float |-> 0, bits_per_sample |-> d.wBitsPerSample,
                    format_name |-> "Unknown"]
    IN  IF d.wFormatTag = WAVE_FORMAT_EXTENSIBLE /\ d.cbSize >= 22
        THEN IF guid_equals(d.SubFormat, KSDATAFORMAT_SUBTYPE_IEEE_FLOAT)
             THEN [unknown EXCEPT !.is_float = 1,
                                  !.format_name = "IEEE Float (via EXTENSIBLE)"]
             ELSE IF guid_equals(d.SubFormat, KSDATAFORMAT_SUBTYPE_PCM)
             THEN [unknown EXCEPT !.is_float = 0,
                                  !.format_name = "PCM (via EXTENSIBLE)"]
             ELSE [unknown EXCEPT !.format_name = "Unknown EXTENSIBLE SubFormat"]
        ELSE IF d.wFormatTag = WAVE_FORMAT_IEEE_FLOAT
        THEN [unknown EXCEPT !.is_float = 1, !.format_name = "IEEE Float"]
        ELSE IF d.wFormatTag = WAVE_FORMAT_PCM
        THEN [unknown EXCEPT !.is_float = 0, !.format_name = "PCM"]
        ELSE unknown

\* "Generate audio based on format": the encoder the render loop runs for
\* a descriptor, "silence" being the memset of the whole buffer.
RenderEncoder(d) ==
    LET info == get_audio_format_info(d)
    IN  IF info.is_float # 0 THEN "float32"
        ELSE IF info.bits_per_sample = 16 THEN "pcm16"
        ELSE IF info.bits_per_sample = 24 THEN "pcm24"
        ELSE IF info.bits_per_sample = 32 THEN "pcm32"
        ELSE "silence"

\* The two helpers of the format handling test.
is_format_ieee_float(d) ==
    IF d.wFormatTag = WAVE_FORMAT_IEEE_FLOAT THEN 1
    ELSE IF d.wFormatTag = WAVE_FORMAT_EXTENSIBLE
    THEN (IF guid_equals(d.SubFormat, KSDATAFORMAT_SUBTYPE_IEEE_FLOAT) THEN 1 ELSE 0)
    ELSE 0

is_format_pcm(d) ==
    IF d.wFormatTag = WAVE_FORMAT_PCM THEN 1
    ELSE IF d.wFormatTag = WAVE_FORMAT_EXTENSIBLE
    THEN (IF guid_equals(d.SubFormat, KSDATAFORMAT_SUBTYPE_PCM) THEN 1 ELSE 0)
    ELSE 0

\* The encoder of the format handling test: one call fills num_samples
\* frames of the caller's buffer, for the depths it knows.
sine_generator_process_pcm(buf, num_samples, channels, bits_per_sample) ==
    [i \in DOMAIN buf |->
        IF i <= num_samples
        THEN [ch \in DOMAIN buf[i] |->
                 IF ch <= channels /\ bits_per_sample \in {16, 24, 32}
                 THEN "T" ELSE buf[i][ch]]
        ELSE buf[i]]

(***************************************************************************)
(* The negotiation as the device program runs it: GetMixFormat reports a   *)
(* descriptor, main resolves it once to print it, and every iteration of   *)
(* the render loop resolves it again and picks the encoder.                *)
(***************************************************************************)
InitFormat ==
    /\ IdleOsc
    /\ IdleRender
    /\ fmt_pc = "mix_format"
    /\ pwfx \in Descriptors
    /\ format_info = [none |-> 0]

ResolveMixFormat ==
    /\ fmt_pc = "mix_format"
    /\ fmt_pc' = "negotiated"
    /\ format_info' = get_audio_format_info(pwfx)
    /\ UNCHANGED <<pwfx, osc_vars, render_vars>>

RenderResolve ==
    /\ fmt_pc = "negotiated"
    /\ fmt_pc' = "rendering"
    /\ format_info' = [is_float |-> get_audio_format_info(pwfx).is_float,
                       bits_per_sample |-> get_audio_format_info(pwfx).bits_per_sample,
                       format_name |-> get_audio_format_info(pwfx).format_name,
                       encoder |-> RenderEncoder(pwfx)]
    /\ UNCHANGED <<pwfx, osc_vars, render_vars>>

\* The format handling test asks both helpers about a descriptor.
FormatHandlingTest ==
    /\ fmt_pc = "mix_format"
    /\ fmt_pc' = "tested"
    /\ format_info' = [is_format_ieee_float |-> is_format_ieee_float(pwfx),
                       is_format_pcm |-> is_format_pcm(pwfx)]
    /\ UNCHANGED <<pwfx, osc_vars, render_vars>>

\* The format handling test generates PCM samples into a local buffer.
GeneratePcmSamples ==
    /\ fmt_pc = "tested"
    /\ fmt_pc' = "encoded"
    /\ \E num_samples \in 1..MaxFrames, bits_per_sample \in BitDepths :
          format_info' =
              [bits_per_sample |-> bits_per_sample,
               buffer |-> sine_generator_process_pcm(
                              [i \in 1..num_samples |-> [ch \in 1..CHANNELS |-> "U"]],
                              num_samples, CHANNELS, bits_per_sample)]
    /\ UNCHANGED <<pwfx, osc_vars, render_vars>>

NextFormat ==
    \/ ResolveMixFormat
    \/ RenderResolve
    \/ FormatHandlingTest
    \/ GeneratePcmSamples

SpecFormat == InitFormat /\ [][NextFormat]_vars

IsExtended(d) == d.wFormatTag = WAVE_FORMAT_EXTENSIBLE /\ d.cbSize >= 22

ToneEncoders == {"float32", "pcm16", "pcm24", "pcm32"}

C9_UnknownSubformatIsError ==
    (fmt_pc = "rendering" /\ IsExtended(pwfx)
        /\ pwfx.SubFormat \notin {KSDATAFORMAT_SUBTYPE_PCM,
                                  KSDATAFORMAT_SUBTYPE_IEEE_FLOAT})
    => (format_info.format_name = "Unknown EXTENSIBLE SubFormat"
        /\ format_info.encoder \notin ToneEncoders)

(***************************************************************************)
(* C10.  A descriptor whose base tag is neither the direct Float tag, the  *)
(* direct PCM tag nor the extended sentinel resolves to the error          *)
(* UnrecognizedFormat, and is never treated as PCM or as Float: no tone    *)
(* encoder is run for it.                                                  *)
(***************************************************************************)
C10_UnrecognizedTagIsError ==
    (fmt_pc = "rendering"
        /\ pwfx.wFormatTag \notin {WAVE_FORMAT_IEEE_FLOAT, WAVE_FORMAT_PCM,
                                   WAVE_FORMAT_EXTENSIBLE})
    => (format_info.format_name = "Unknown"
        /\ format_info.encoder \notin ToneEncoders)

(***************************************************************************)
(* Host buffers.  A buffer is a sequence of frames, a frame a function     *)
(* from channel to what the code stored in that slot: "T" a sample taken   *)
(* from the oscillator, "Z" an explicit zero, "U" nothing (the slot still  *)
(* holds what the host left there).                                        *)
(***************************************************************************)
HostBuffer(frames, channels) ==
    [i \in 1..frames |-> [ch \in 1..channels |-> "U"]]

\* Store v in every channel of the frames first..last.
WriteFrames(buf, first, last, v) ==
    [i \in DOMAIN buf |->
        IF first <= i /\ i <= last THEN [ch \in DOMAIN buf[i] |-> v] ELSE buf[i]]

ToneFrames(buf) == Cardinality({i \in DOMAIN buf : \E ch \in DOMAIN buf[i] : buf[i][ch] = "T"})

Access(c, o, v) == [ctx |-> c, op |-> o, var |-> v]

(***************************************************************************)
(* macOS CoreAudio sine_generator_app: audio_callback.                     *)
(***************************************************************************)
FramesToGenerate(inNumberFrames, frames_remaining) ==
    IF inNumberFrames > frames_remaining THEN frames_remaining ELSE inNumberFrames

\* A variant that skips the tail: the frames past frames_to_generate keep
\* what the host left in them.
SilenceRestOmitted(buf, frames_to_generate, inNumberFrames) == buf

\* "Fill rest with silence if needed"
SilenceRest(buf, frames_to_generate, inNumberFrames) ==
    IF frames_to_generate < inNumberFrames
    THEN WriteFrames(buf, frames_to_generate + 1, inNumberFrames, "Z")
    ELSE buf

app_audio_callback(context, inNumberFrames) ==
    LET ioData == HostBuffer(inNumberFrames, CHANNELS)
    IN  IF context.frames_remaining <= 0
        THEN [ctx |-> context,
              buf |-> WriteFrames(ioData, 1, inNumberFrames, "Z"),
              acc |-> {Access("rt", "read", "progress")}]
        ELSE LET frames_to_generate ==
                     FramesToGenerate(inNumberFrames, context.frames_remaining)
                 generated == WriteFrames(ioData, 1, frames_to_generate, "T")
             IN  [ctx |-> [context EXCEPT !.frames_remaining = @ - frames_to_generate],
                  buf |-> SilenceRest(generated, frames_to_generate, inNumberFrames),
                  acc |-> {Access("rt", "read", "progress"),
                           Access("rt", "write", "progress")}]

(***************************************************************************)
(* JACK jack_sine_generator: process_callback.                             *)
(***************************************************************************)
\* A variant that notices the target one frame late.
TargetReachedLate(g) ==
    g.target_frames > 0 /\ g.frames_processed > g.target_frames

TargetReached(g) ==
    g.target_frames > 0 /\ g.frames_processed >= g.target_frames

RECURSIVE JackSampleLoop(_, _, _, _)
JackSampleLoop(g, buf, i, nframes) ==
    IF i > nframes
    THEN [ctx |-> g, buf |-> buf,
          acc |-> {Access("rt", "read", "progress"), Access("rt", "write", "progress")}]
    ELSE IF TargetReached(g)
    THEN \* fill rest with silence, is_running = 0, break
         [ctx |-> [g EXCEPT !.is_running = 0],
          buf |-> WriteFrames(buf, i, nframes, "Z"),
          acc |-> {Access("rt", "read", "progress"), Access("rt", "write", "progress"),
                   Access("rt", "write", "stop")}]
    ELSE JackSampleLoop([g EXCEPT !.frames_processed = @ + 1],
                        WriteFrames(buf, i, i, "T"), i + 1, nframes)

process_callback(g, nframes) ==
    LET out == HostBuffer(nframes, CHANNELS)      \* out_left, out_right
    IN  IF TargetReached(g)
        THEN \* output silence, is_running = 0, return
             [ctx |-> [g EXCEPT !.is_running = 0],
              buf |-> WriteFrames(out, 1, nframes, "Z"),
              acc |-> {Access("rt", "read", "progress"), Access("rt", "write", "stop")}]
        ELSE JackSampleLoop(g, out, 1, nframes)

(***************************************************************************)
(* macOS JACK generator: sine_generator_process_float and                  *)
(* jack_process_callback.                                                  *)
(***************************************************************************)
RECURSIVE sine_generator_process_float(_, _, _, _)
sine_generator_process_float(g, buf, i, nframes) ==
    IF i > nframes THEN [ctx |-> g, buf |-> buf]
    ELSE IF g.frames_remaining <= 0
    THEN sine_generator_process_float(g, WriteFrames(buf, i, i, "Z"), i + 1, nframes)
    ELSE sine_generator_process_float([g EXCEPT !.frames_remaining = @ - 1],
                                      WriteFrames(buf, i, i, "T"), i + 1, nframes)

\* A variant that fills the buffer but never raises should_exit.
jack_process_callback_keeps_running(g, nframes) ==
    LET r == sine_generator_process_float(g, HostBuffer(nframes, CHANNELS), 1, nframes)
    IN  [ctx |-> r.ctx, buf |-> r.buf, acc |-> {Access("rt", "read", "progress")}]

jack_process_callback(g, nframes) ==
    LET r == sine_generator_process_float(g, HostBuffer(nframes, CHANNELS), 1, nframes)
        rw == {Access("rt", "read", "progress")}
                \cup (IF g.frames_remaining > 0
                      THEN {Access("rt", "write", "progress")} ELSE {})
    IN  IF r.ctx.frames_remaining <= 0
        THEN [ctx |-> [r.ctx EXCEPT !.should_exit = 1], buf |-> r.buf,
              acc |-> rw \cup {Access("rt", "write", "stop")}]
        ELSE [ctx |-> r.ctx, buf |-> r.buf, acc |-> rw]

(***************************************************************************)
(* macOS CoreAudio virtual_sine_device: audio_callback.  With no buffer in *)
(* ioData it returns at once; there is no slot to write then.              *)
(***************************************************************************)
device_audio_callback(context, inNumberFrames, mNumberBuffers) ==
    IF mNumberBuffers = 0
    THEN [ctx |-> context, buf |-> << >>, acc |-> {}]
    ELSE [ctx |-> context,
          buf |-> WriteFrames(HostBuffer(inNumberFrames, context.channels),
                              1, inNumberFrames, "T"),
          acc |-> {}]

(***************************************************************************)
(* Windows: what one iteration of a WASAPI render loop stores in the       *)
(* acquired buffer.  The device program picks the encoder from the         *)
(* negotiation; the sine_generator_app looks at the base tag only.         *)
(***************************************************************************)
DeviceFill(d, numFramesAvailable) ==
    WriteFrames(HostBuffer(numFramesAvailable, d.nChannels), 1, numFramesAvailable,
                IF RenderEncoder(d) \in {"float32", "pcm16", "pcm24", "pcm32"}
                THEN "T" ELSE "Z")

AppFill(d, numFramesAvailable) ==
    WriteFrames(HostBuffer(numFramesAvailable, d.nChannels), 1, numFramesAvailable,
                IF d.wFormatTag = WAVE_FORMAT_IEEE_FLOAT THEN "T" ELSE "Z")

(***************************************************************************)
(* Linux ALSA sine_generator_app: the buffer of one loop iteration, a      *)
(* whole period of oscillator samples.                                     *)
(***************************************************************************)
AlsaFill(frames) == WriteFrames(HostBuffer(frames, CHANNELS), 1, frames, "T")

(***************************************************************************)
(* The generator programs, from the moment the stream has been started.    *)
(***************************************************************************)
Programs == {"coreaudio_app", "jack", "jack_macos", "coreaudio_device",
             "alsa_app", "wasapi_app", "wasapi_device"}

\* The programs whose buffers are filled in a host-driven callback.
CallbackPrograms == {"coreaudio_app", "jack", "jack_macos", "coreaudio_device"}

\* The shared state each program starts its stream with.  A duration is in
\* seconds; 0 is "infinite" where the program supports it.
InitialContexts(p) ==
    CASE p = "coreaudio_app" ->
            {[frames_remaining |-> duration * FramesPerSecond,
              total_frames |-> duration * FramesPerSecond,
              duration |-> duration, i |-> 0] : duration \in 1..MaxDuration}
      [] p = "jack" ->
            {[frames_processed |-> 0,
              target_frames |-> IF duration > 0 THEN duration * FramesPerSecond ELSE 0,
              is_running |-> 1, duration |-> duration, active |-> TRUE] :
                duration \in 0..MaxDuration}
      [] p = "jack_macos" ->
            {[frames_remaining |-> duration * FramesPerSecond,
              total_frames |-> duration * FramesPerSecond,
              should_exit |-> 0] : duration \in 1..MaxDuration}
      [] p = "coreaudio_device" ->
            {[g_running |-> 1, channels |-> channels] : channels \in 1..CHANNELS}
      [] p = "alsa_app" ->
            {[frames_written |-> 0, total_frames |-> duration * FramesPerSecond,
              frames |-> frames] :
                duration \in 1..MaxDuration, frames \in 1..MaxFrames}
      [] p = "wasapi_app" ->
            {[frames_written |-> 0, total_frames |-> duration * FramesPerSecond,
              pwfx |-> d] : duration \in 1..MaxDuration, d \in Descriptors}
      [] p = "wasapi_device" ->
            {[g_running |-> 1, pwfx |-> d] : d \in Descriptors}

InitRender ==
    /\ IdleOsc
    /\ IdleFormat
    /\ program \in Programs
    /\ ctx \in InitialContexts(program)
    /\ main_pc = "playing"
    /\ exit_code = -1
    /\ buffer = << >>
    /\ tone_frames = 0
    /\ stop_raised = FALSE
    /\ cb_after_stop = FALSE
    /\ accesses = {}

\* What every callback or poll iteration leaves behind: the buffer, the
\* shared state, and the history.
Rendered(r) ==
    /\ tone_frames + ToneFrames(r.buf) <= MaxTotalFrames
    /\ ctx' = r.ctx
    /\ buffer' = r.buf
    /\ tone_frames' = tone_frames + ToneFrames(r.buf)
    /\ cb_after_stop' = stop_raised
    /\ accesses' = accesses \cup r.acc
    /\ UNCHANGED <<program, main_pc, exit_code, stop_raised, osc_vars, fmt_vars>>

Close(code, acc) ==
    /\ main_pc' = "closed"
    /\ exit_code' = code
    /\ accesses' = accesses \cup acc
    /\ UNCHANGED <<program, ctx, buffer, tone_frames, stop_raised, cb_after_stop,
                   osc_vars, fmt_vars>>

\* ---- macOS CoreAudio sine_generator_app ----
AppAudioCallback ==
    /\ program = "coreaudio_app" /\ main_pc = "playing"
    /\ \E inNumberFrames \in 1..MaxFrames :
           Rendered(app_audio_callback(ctx, inNumberFrames))

\* "Monitor progress": for (i = 0; i <= duration; i++) sleep(1);
AppMonitorSleep ==
    /\ program = "coreaudio_app" /\ main_pc = "playing"
    /\ ctx.i <= ctx.duration
    /\ ctx' = [ctx EXCEPT !.i = @ + 1]
    /\ UNCHANGED <<program, main_pc, exit_code, buffer, tone_frames, stop_raised,
                   cb_after_stop, accesses, osc_vars, fmt_vars>>

AppStop ==
    /\ program = "coreaudio_app" /\ main_pc = "playing"
    /\ ~(ctx.i <= ctx.duration)
    /\ Close(0, {})

\* ---- JACK jack_sine_generator ----
JackProcessCallback ==
    /\ program = "jack" /\ main_pc = "playing" /\ ctx.active
    /\ \E nframes \in 1..MaxFrames : Rendered(process_callback(ctx, nframes))

Signalled(c, acc) ==
    /\ ctx' = c
    /\ stop_raised' = TRUE
    /\ accesses' = accesses \cup acc
    /\ UNCHANGED <<program, main_pc, exit_code, buffer, tone_frames, cb_after_stop,
                   osc_vars, fmt_vars>>

JackSignalHandler ==
    /\ program = "jack" /\ main_pc = "playing"
    /\ Signalled([ctx EXCEPT !.is_running = 0], {Access("control", "write", "stop")})

\* The JACK server goes away: no further process callbacks.
JackShutdownCallback ==
    /\ program = "jack" /\ main_pc = "playing" /\ ctx.active
    /\ ctx' = [ctx EXCEPT !.is_running = 0, !.active = FALSE]
    /\ accesses' = accesses \cup {Access("control", "write", "stop")}
    /\ UNCHANGED <<program, main_pc, exit_code, buffer, tone_frames, stop_raised,
                   cb_after_stop, osc_vars, fmt_vars>>

\* while (generator.is_running) { sleep(1); print progress }
JackMainWait ==
    /\ program = "jack" /\ main_pc = "playing"
    /\ ctx.is_running # 0
    /\ accesses' = accesses \cup {Access("control", "read", "stop")}
                       \cup (IF ctx.duration > 0
                             THEN {Access("control", "read", "progress")} ELSE {})
    /\ UNCHANGED <<program, ctx, main_pc, exit_code, buffer, tone_frames, stop_raised,
                   cb_after_stop, osc_vars, fmt_vars>>

\* the loop is left: jack_deactivate, jack_client_close, return 0
JackMainExit ==
    /\ program = "jack" /\ main_pc = "playing"
    /\ ctx.is_running = 0
    /\ Close(0, {Access("control", "read", "stop")})

\* ---- macOS JACK generator ----
MacJackProcessCallback ==
    /\ program = "jack_macos" /\ main_pc = "playing"
    /\ \E nframes \in 1..MaxFrames : Rendered(jack_process_callback(ctx, nframes))

MacJackSignalHandler ==
    /\ program = "jack_macos" /\ main_pc = "playing"
    /\ Signalled([ctx EXCEPT !.should_exit = 1], {Access("control", "write", "stop")})

\* jack_shutdown_callback: exit(1)
MacJackShutdownCallback ==
    /\ program = "jack_macos" /\ main_pc = "playing"
    /\ Close(1, {})

\* while (!generator.should_exit) { usleep(100000); print progress }
MacJackMainWait ==
    /\ program = "jack_macos" /\ main_pc = "playing"
    /\ ctx.should_exit = 0
    /\ accesses' = accesses \cup {Access("control", "read", "stop"),
                                  Access("control", "read", "progress")}
    /\ UNCHANGED <<program, ctx, main_pc, exit_code, buffer, tone_frames, stop_raised,
                   cb_after_stop, osc_vars, fmt_vars>>

MacJackMainExit ==
    /\ program = "jack_macos" /\ main_pc = "playing"
    /\ ctx.should_exit # 0
    /\ Close(0, {Access("control", "read", "stop")})

\* ---- macOS CoreAudio virtual_sine_device ----
DeviceAudioCallback ==
    /\ program = "coreaudio_device" /\ main_pc = "playing"
    /\ \E inNumberFrames \in 1..MaxFrames, mNumberBuffers \in 0..1 :
           Rendered(device_audio_callback(ctx, inNumberFrames, mNumberBuffers))

DeviceSignalHandler ==
    /\ program = "coreaudio_device" /\ main_pc = "playing"
    /\ Signalled([ctx EXCEPT !.g_running = 0], {Access("control", "write", "stop")})

\* while (g_running) sleep(1);
DeviceMainWait ==
    /\ program = "coreaudio_device" /\ main_pc = "playing"
    /\ ctx.g_running # 0
    /\ accesses' = accesses \cup {Access("control", "read", "stop")}
    /\ UNCHANGED <<program, ctx, main_pc, exit_code, buffer, tone_frames, stop_raised,
                   cb_after_stop, osc_vars, fmt_vars>>

DeviceMainExit ==
    /\ program = "coreaudio_device" /\ main_pc = "playing"
    /\ ctx.g_running = 0
    /\ Close(0, {Access("control", "read", "stop")})

\* ---- Linux ALSA sine_generator_app ----
\* One iteration of while (frames_written < total_frames): a period is
\* generated and handed to snd_pcm_writei, which accepts all of it, accepts
\* part of it, reports an underrun (-EPIPE) or fails.
AlsaWrite ==
    /\ program = "alsa_app" /\ main_pc = "playing"
    /\ ctx.frames_written < ctx.total_frames
    /\ \E err \in {[kind |-> "frames", n |-> k] : k \in 0..ctx.frames}
                    \cup {[kind |-> "EPIPE", n |-> 0]} :
          LET accepted == IF err.kind = "EPIPE" THEN 0 ELSE err.n
          IN  /\ tone_frames + accepted <= MaxTotalFrames
              /\ buffer' = AlsaFill(ctx.frames)
              /\ tone_frames' = tone_frames + accepted
              /\ ctx' = [ctx EXCEPT !.frames_written = @ + ctx.frames]
    /\ cb_after_stop' = stop_raised
    /\ accesses' = accesses \cup {Access("rt", "read", "progress"),
                                  Access("rt", "write", "progress")}
    /\ UNCHANGED <<program, main_pc, exit_code, stop_raised, osc_vars, fmt_vars>>

\* snd_pcm_writei fails with another error: break, cleanup, return 0
AlsaWriteError ==
    /\ program = "alsa_app" /\ main_pc = "playing"
    /\ ctx.frames_written < ctx.total_frames
    /\ buffer' = AlsaFill(ctx.frames)
    /\ main_pc' = "closed"
    /\ exit_code' = 0
    /\ cb_after_stop' = stop_raised
    /\ accesses' = accesses \cup {Access("rt", "read", "progress")}
    /\ UNCHANGED <<program, ctx, tone_frames, stop_raised, osc_vars, fmt_vars>>

AlsaDone ==
    /\ program = "alsa_app" /\ main_pc = "playing"
    /\ ~(ctx.frames_written < ctx.total_frames)
    /\ Close(0, {Access("rt", "read", "progress")})

\* ---- Windows WASAPI sine_generator_app ----
\* One iteration of while (frames_written < total_frames) in which every
\* WASAPI call succeeds; numFramesAvailable = 0 only sleeps.
WasapiAppPoll ==
    /\ program = "wasapi_app" /\ main_pc = "playing"
    /\ ctx.frames_written < ctx.total_frames
    /\ \E numFramesAvailable \in 0..MaxFrames :
          IF numFramesAvailable > 0
          THEN Rendered([ctx |-> [ctx EXCEPT !.frames_written = @ + numFramesAvailable],
                         buf |-> AppFill(ctx.pwfx, numFramesAvailable),
                         acc |-> {Access("rt", "read", "progress"),
                                  Access("rt", "write", "progress")}])
          ELSE /\ accesses' = accesses \cup {Access("rt", "read", "progress")}
               /\ UNCHANGED <<program, ctx, main_pc, exit_code, buffer, tone_frames,
                              stop_raised, cb_after_stop, osc_vars, fmt_vars>>

\* GetCurrentPadding, GetBuffer or ReleaseBuffer fails: break, cleanup,
\* return 0.  A failed ReleaseBuffer comes after the buffer was filled.
WasapiAppFail ==
    /\ program = "wasapi_app" /\ main_pc = "playing"
    /\ ctx.frames_written < ctx.total_frames
    /\ \E failed \in {"GetCurrentPadding", "GetBuffer", "ReleaseBuffer"} :
          buffer' = IF failed = "ReleaseBuffer"
                    THEN AppFill(ctx.pwfx, MaxFrames) ELSE buffer
    /\ main_pc' = "closed"
    /\ exit_code' = 0
    /\ accesses' = accesses \cup {Access("rt", "read", "progress")}
    /\ UNCHANGED <<program, ctx, tone_frames, stop_raised, cb_after_stop,
                   osc_vars, fmt_vars>>

WasapiAppDone ==
    /\ program = "wasapi_app" /\ main_pc = "playing"
    /\ ~(ctx.frames_written < ctx.total_frames)
    /\ Close(0, {Access("rt", "read", "progress")})

\* ---- Windows WASAPI virtual_sine_device ----
\* One iteration of while (g_running) in which every WASAPI call succeeds.
WasapiDevicePoll ==
    /\ program = "wasapi_device" /\ main_pc = "playing"
    /\ ctx.g_running # 0
    /\ \E numFramesAvailable \in 0..MaxFrames :
          IF numFramesAvailable > 0
          THEN Rendered([ctx |-> ctx,
                         buf |-> DeviceFill(ctx.pwfx, numFramesAvailable),
                         acc |-> {Access("rt", "read", "stop")}])
          ELSE /\ accesses' = accesses \cup {Access("rt", "read", "stop")}
               /\ UNCHANGED <<program, ctx, main_pc, exit_code, buffer, tone_frames,
                              stop_raised, cb_after_stop, osc_vars, fmt_vars>>

WasapiDeviceFail ==
    /\ program = "wasapi_device" /\ main_pc = "playing"
    /\ ctx.g_running # 0
    /\ \E failed \in {"GetCurrentPadding", "GetBuffer", "ReleaseBuffer"} :
          buffer' = IF failed = "ReleaseBuffer"
                    THEN DeviceFill(ctx.pwfx, MaxFrames) ELSE buffer
    /\ main_pc' = "closed"
    /\ exit_code' = 0
    /\ accesses' = accesses \cup {Access("rt", "read", "stop")}
    /\ UNCHANGED <<program, ctx, tone_frames, stop_raised, cb_after_stop,
                   osc_vars, fmt_vars>>

\* console_handler: only Ctrl+C and Ctrl+Break clear g_running.
ConsoleHandler ==
    /\ program = "wasapi_device" /\ main_pc = "playing"
    /\ \E signal \in {"CTRL_C_EVENT", "CTRL_BREAK_EVENT", "CTRL_CLOSE_EVENT"} :
          IF signal = "CTRL_C_EVENT" \/ signal = "CTRL_BREAK_EVENT"
          THEN Signalled([ctx EXCEPT !.g_running = 0],
                         {Access("control", "write", "stop")})
          ELSE UNCHANGED vars

WasapiDeviceExit ==
    /\ program = "wasapi_device" /\ main_pc = "playing"
    /\ ctx.g_running = 0
    /\ Close(0, {Access("rt", "read", "stop")})

NextRender ==
    \/ AppAudioCallback
    \/ AppMonitorSleep
    \/ AppStop
    \/ JackProcessCallback
    \/ JackSignalHandler
    \/ JackShutdownCallback
    \/ JackMainWait
    \/ JackMainExit
    \/ MacJackProcessCallback
    \/ MacJackSignalHandler
    \/ MacJackShutdownCallback
    \/ MacJackMainWait
    \/ MacJackMainExit
    \/ DeviceAudioCallback
    \/ DeviceSignalHandler
    \/ DeviceMainWait
    \/ DeviceMainExit
    \/ AlsaWrite
    \/ AlsaWriteError
    \/ AlsaDone
    \/ WasapiAppPoll
    \/ WasapiAppFail
    \/ WasapiAppDone
    \/ WasapiDevicePoll
    \/ WasapiDeviceFail
    \/ ConsoleHandler
    \/ WasapiDeviceExit

SpecRender == InitRender /\ [][NextRender]_vars

(***************************************************************************)
(* The same programs under the scheduling the platform gives them: the     *)
(* host keeps calling the callback of a started stream, a pull loop keeps  *)
(* iterating, and a main thread that sleeps in its wait loop wakes up and  *)
(* re-tests the loop condition.                                            *)
(***************************************************************************)
Fairness ==
    /\ WF_vars(AppMonitorSleep) /\ WF_vars(AppStop)
    /\ WF_vars(JackProcessCallback) /\ WF_vars(JackMainExit)
    /\ WF_vars(MacJackProcessCallback) /\ WF_vars(MacJackMainExit)
    /\ WF_vars(AlsaWrite) /\ WF_vars(AlsaDone)
    /\ WF_vars(WasapiAppPoll) /\ WF_vars(WasapiAppDone)

SpecRenderLive == InitRender /\ [][NextRender]_vars /\ Fairness

\* targetFrames of the run; 0 when the run has no finite target.
TargetFrames ==
    CASE program \in {"coreaudio_app", "jack_macos", "alsa_app", "wasapi_app"} ->
            ctx.total_frames
      [] program = "jack" -> ctx.target_frames
      [] OTHER -> 0

\* The programs with a finite target whose buffers are filled in a callback.
FiniteCallbackRun == program \in CallbackPrograms /\ TargetFrames > 0

AllZero(buf) == \A i \in DOMAIN buf : \A ch \in DOMAIN buf[i] : buf[i][ch] = "Z"

\* Some leading frames carry tone on every channel, all frames after them
\* are zero on every channel.
ToneThenZero(buf) ==
    \E k \in 0..Len(buf) :
        \A i \in DOMAIN buf : \A ch \in DOMAIN buf[i] :
            buf[i][ch] = (IF i <= k THEN "T" ELSE "Z")

\* The stop flag of the program is raised.
StopFlagRaised ==
    CASE program = "jack" -> ctx.is_running = 0
      [] program = "jack_macos" -> ctx.should_exit # 0
      [] program \in {"coreaudio_device", "wasapi_device"} -> ctx.g_running = 0
      [] OTHER -> FALSE

(***************************************************************************)
(* C2.  Every render callback invocation, in whatever scheduler state,     *)
(* writes a value to every slot (frame x channel) of the host buffer of    *)
(* the requested frame count: after a callback or poll iteration no slot   *)
(* of the buffer is unwritten.                                             *)
(***************************************************************************)
C2_AllSlotsWritten ==
    \A i \in DOMAIN buffer : \A ch \in DOMAIN buffer[i] : buffer[i][ch] # "U"

\* The target is reached inside a buffer of the CoreAudio application: tone
\* in its first frames, explicit zeros in the rest.
C2_Witness ==
    /\ program = "coreaudio_app"
    /\ ctx.frames_remaining = 0
    /\ \E i, j \in DOMAIN buffer :
          /\ i < j
          /\ \A ch \in 1..CHANNELS : buffer[i][ch] = "T" /\ buffer[j][ch] = "Z"

(***************************************************************************)
(* C3.  In every run with a finite duration, the pull-style ALSA and       *)
(* WASAPI loops included, the total number of tone frames written never    *)
(* exceeds targetFrames.                                                   *)
(***************************************************************************)
C3_ToneWithinTarget ==
    TargetFrames > 0 => tone_frames <= TargetFrames

(***************************************************************************)
(* C4.  For a finite target in a callback-driven run: tone frames never    *)
(* pass targetFrames; the callback in which they reach targetFrames leaves *)
(* only zeros after its tone frames; and once they equal targetFrames      *)
(* every later callback leaves a buffer that is zero on every channel and  *)
(* adds no tone frame.                                                     *)
(***************************************************************************)
C4_SilenceAfterTarget ==
    [][FiniteCallbackRun =>
         /\ tone_frames' <= TargetFrames
         /\ (tone_frames < TargetFrames /\ tone_frames' = TargetFrames)
                => ToneThenZero(buffer')
         /\ tone_frames = TargetFrames
                => /\ tone_frames' = tone_frames
                   /\ buffer' = buffer \/ AllZero(buffer')]_vars

\* A callback after the target was reached: the whole target was played and
\* the buffer it left is all zeros.
C4_Witness ==
    /\ FiniteCallbackRun
    /\ tone_frames = TargetFrames
    /\ buffer # << >>
    /\ AllZero(buffer)

(***************************************************************************)
(* C5.  For a finite target, while the host keeps requesting buffers, the  *)
(* run does not stay in Running or Draining forever: the stream is         *)
(* eventually closed.  In the JACK generators the wait loop of main is     *)
(* left, with exit status 0, only when the stop indication has been        *)
(* raised.                                                                 *)
(***************************************************************************)
C5_EventuallyStopped ==
    /\ (TargetFrames > 0 /\ main_pc = "playing") ~> (main_pc = "closed")
    /\ [](program \in {"jack", "jack_macos"} /\ main_pc = "closed" /\ exit_code = 0
            => StopFlagRaised)

\* A JACK run that played its whole target, had its stop indication raised
\* by the callback (no signal arrived) and was closed by main.
C5_Witness ==
    /\ program \in {"jack", "jack_macos"}
    /\ TargetFrames > 0
    /\ tone_frames = TargetFrames
    /\ ~stop_raised
    /\ StopFlagRaised
    /\ main_pc = "closed"
    /\ exit_code = 0

(***************************************************************************)
(* C6.  Every callback or poll iteration that starts after the control     *)
(* context raised the stop flag produces no tone.                          *)
(***************************************************************************)
C6_NoToneAfterStop ==
    cb_after_stop => ToneFrames(buffer) = 0

(***************************************************************************)
(* C7.  The stop flag is written only by the control context and read only *)
(* by the real-time context; the real-time context never writes it, and    *)
(* the control context never writes the progress counters.                 *)
(***************************************************************************)
C7_AccessDiscipline ==
    \A a \in accesses :
        /\ (a.var = "stop" /\ a.op = "write") => a.ctx = "control"
        /\ (a.var = "stop" /\ a.op = "read") => a.ctx = "rt"
        /\ (a.var = "progress" /\ a.op = "write") => a.ctx = "rt"

\* The direct-tag descriptor of the same stream as an extended descriptor
\* with a known sub-format.
DirectEquivalent(d) ==
    [d EXCEPT !.wFormatTag = IF d.SubFormat = KSDATAFORMAT_SUBTYPE_IEEE_FLOAT
                             THEN WAVE_FORMAT_IEEE_FLOAT ELSE WAVE_FORMAT_PCM,
              !.cbSize = 0,
              !.SubFormat = NoSubFormat]

(***************************************************************************)
(* C11.  Every render path decides the encoding through the extended-aware *)
(* negotiation: the buffer a WASAPI render loop fills for an extended      *)
(* descriptor with a PCM or IEEE-float sub-format is the buffer it fills   *)
(* for the corresponding direct-tag descriptor.                            *)
(***************************************************************************)
C11_ExtendedAsDirect ==
    (/\ program \in {"wasapi_app", "wasapi_device"}
     /\ buffer # << >>
     /\ IsExtended(ctx.pwfx)
     /\ ctx.pwfx.SubFormat \in {KSDATAFORMAT_SUBTYPE_PCM, KSDATAFORMAT_SUBTYPE_IEEE_FLOAT})
    => buffer = (IF program = "wasapi_app"
                 THEN AppFill(DirectEquivalent(ctx.pwfx), Len(buffer))
                 ELSE DeviceFill(DirectEquivalent(ctx.pwfx), Len(buffer)))

\* The negotiation did not recognize the descriptor.
Unrecognized(d) ==
    get_audio_format_info(d).format_name \in {"Unknown", "Unknown EXTENSIBLE SubFormat"}

(***************************************************************************)
(* C12.  When the negotiated format is unrecognized (unknown sub-format or *)
(* unrecognized base tag), the render loop writes only zero samples for    *)
(* every requested frame: it never writes tone in a guessed encoding.      *)
(***************************************************************************)
C12_UnrecognizedRendersSilence ==
    (program = "wasapi_device" /\ buffer # << >> /\ Unrecognized(ctx.pwfx))
    => AllZero(buffer)

\* An integer stream of a depth the render loop has no encoder for.
UnsupportedDepth(d) ==
    /\ get_audio_format_info(d).is_float = 0
    /\ get_audio_format_info(d).bits_per_sample \notin {16, 24, 32}

\* The render loop of the device program: for an integer stream of such a
\* depth every slot of the requested frames is zero, and while the stream is
\* playing and not stopped another iteration is possible.
UnsupportedDepthRendersSilence ==
    (program = "wasapi_device" /\ UnsupportedDepth(ctx.pwfx))
    => /\ AllZero(buffer)
       /\ (main_pc = "playing" /\ ctx.g_running # 0) => ENABLED WasapiDevicePoll

AmplitudeDen == 4

Real(n) == [nan |-> FALSE, num |-> n]
NaN == [nan |-> TRUE, num |-> 0]

\* The values atof can hand to the -a validation and a caller can hand to
\* sine_generator_set_amplitude: below 0, inside [0, 1], above 1, and NaN.
AmplitudeArgs == {Real(n) : n \in -1..(AmplitudeDen + 1)} \cup {NaN}

\* Pairs (frequency, sample_rate) with frequency = sample_rate / 4.
QuarterTurnRates == {<<2000, 8000>>, <<12000, 48000>>}

\* if (amplitude < 0.0 || amplitude > 1.0) -> rejected.  Both comparisons
\* are false for a NaN.
ValidAmplitude(amplitude) ==
    ~(  (~amplitude.nan /\ amplitude.num < 0)
     \/ (~amplitude.nan /\ amplitude.num > AmplitudeDen))

\* The value is a number in [-1, 1].
InUnitRange(x) == ~x.nan /\ -AmplitudeDen <= x.num /\ x.num <= AmplitudeDen

\* The amplitude is a number in [0, 1].
AmplitudeInUnitRange(amplitude) ==
    ~amplitude.nan /\ 0 <= amplitude.num /\ amplitude.num <= AmplitudeDen

sine_generator_init_amplitude(frequency, sample_rate, amplitude) ==
    [phase |-> 0, frequency |-> frequency, sample_rate |-> sample_rate,
     amplitude |-> amplitude]

sine_generator_set_amplitude(g, amplitude) == [g EXCEPT !.amplitude = amplitude]

\* sin(gen->phase) at a whole number of quarter turns.
Sine(g) ==
    LET quarter == (4 * g.phase) \div g.sample_rate
    IN  CASE quarter = 0 -> 0
          [] quarter = 1 -> 1
          [] quarter = 2 -> 0
          [] quarter = 3 -> -1

\* double sample = gen->amplitude * sin(gen->phase);
Sample(g) ==
    IF g.amplitude.nan THEN NaN ELSE Real(g.amplitude.num * Sine(g))

Encodings == {"i16", "i32", "pcm16", "pcm24", "pcm32"}

\* const double scale = 32767.0 / 8388607.0 / 2147483647.0
FullScale(encoding) ==
    CASE encoding \in {"i16", "pcm16"} -> 32767
      [] encoding = "pcm24" -> 8388607
      [] encoding \in {"i32", "pcm32"} -> 2147483647

\* A conversion that loses the lowest bit as well as the fraction.
TruncatingCastCoarse(x, scale) ==
    LET a == IF x < 0 THEN -x ELSE x
        m == a * (scale \div AmplitudeDen) + (a * (scale % AmplitudeDen)) \div AmplitudeDen
    IN  IF x < 0 THEN -(2 * (m \div 2)) ELSE 2 * (m \div 2)

\* The conversion (intN_t)(sample * scale) of a sample in [-1, 1]: the
\* fraction is discarded, i.e. the product is truncated toward zero.
\* sample * scale = x * scale / AmplitudeDen, computed without leaving the
\* 32-bit range.
TruncatingCast(x, scale) ==
    LET a == IF x < 0 THEN -x ELSE x
        m == a * (scale \div AmplitudeDen) + (a * (scale % AmplitudeDen)) \div AmplitudeDen
    IN  IF x < 0 THEN -m ELSE m

\* What the conversion of one sample can store.  Converting a NaN, or a
\* product outside the range of the target type, is undefined behaviour:
\* the builds in use store the type's minimum, zero, or a saturated value.
CastOutcomes(sample, encoding) ==
    IF InUnitRange(sample)
    THEN {TruncatingCast(sample.num, FullScale(encoding))}
    ELSE {-FullScale(encoding) - 1, 0, FullScale(encoding)}

\* 24-bit samples are stored as 3 bytes, little-endian:
\*   (sample & 0xFF), ((sample >> 8) & 0xFF), ((sample >> 16) & 0xFF)
Pack24(sample) ==
    LET u == sample % 16777216
    IN  <<u % 256, (u \div 256) % 256, (u \div 65536) % 256>>

\* The signed 24-bit integer three little-endian bytes stand for.
Unpack24(bytes) ==
    LET u == bytes[1] + 256 * bytes[2] + 65536 * bytes[3]
    IN  IF u >= 8388608 THEN u - 16777216 ELSE u

\* What one sample leaves in the buffer: the sample it was computed from,
\* the integer stored and, for 24 bits, the bytes stored.
Stored(sample, encoding, value) ==
    [sample |-> sample,
     value |-> IF encoding = "pcm24" THEN Unpack24(Pack24(value)) ELSE value,
     bytes |-> IF encoding = "pcm24" THEN Pack24(value) ELSE << >>]

\* The runs of one process call: the generator after num_samples samples
\* and the buffer contents, one run per choice of outcomes.
RECURSIVE EncodeRuns(_, _, _, _)
EncodeRuns(g, out, num_samples, encoding) ==
    IF num_samples = 0 THEN {[gen |-> g, out |-> out]}
    ELSE UNION {EncodeRuns(AdvancePhase(g),
                           Append(out, Stored(Sample(g), encoding, value)),
                           num_samples - 1, encoding) :
                    value \in CastOutcomes(Sample(g), encoding)}

(***************************************************************************)
(* The encoders at work: the -a argument is validated, the generator is    *)
(* initialised, then process calls and set_amplitude calls follow.         *)
(***************************************************************************)
InitEncode ==
    /\ IdleRender
    /\ IdleFormat
    /\ osc_pc = "args"
    /\ \E rate \in QuarterTurnRates, amplitude \in AmplitudeArgs :
           gen = sine_generator_init_amplitude(rate[1], rate[2], amplitude)
    /\ samples_generated = 0
    /\ last_call = [encoding |-> "none", num_samples |-> 0, out |-> << >>,
                    amplitude |-> Real(0)]

ParseAmplitudeReject ==
    /\ osc_pc = "args"
    /\ ~ValidAmplitude(gen.amplitude)
    /\ osc_pc' = "rejected"
    /\ UNCHANGED <<gen, samples_generated, last_call, render_vars, fmt_vars>>

ParseAmplitudeAccept ==
    /\ osc_pc = "args"
    /\ ValidAmplitude(gen.amplitude)
    /\ osc_pc' = "encoding"
    /\ gen' = sine_generator_init_amplitude(gen.frequency, gen.sample_rate, gen.amplitude)
    /\ UNCHANGED <<samples_generated, last_call, render_vars, fmt_vars>>

SetAmplitude ==
    /\ osc_pc = "encoding"
    /\ \E amplitude \in AmplitudeArgs :
           gen' = sine_generator_set_amplitude(gen, amplitude)
    /\ UNCHANGED <<osc_pc, samples_generated, last_call, render_vars, fmt_vars>>

Encode ==
    /\ osc_pc = "encoding"
    /\ \E encoding \in Encodings, num_samples \in 1..MaxBuffer :
          \E run \in EncodeRuns(gen, << >>, num_samples, encoding) :
              /\ gen' = run.gen
              /\ last_call' = [encoding |-> encoding, num_samples |-> num_samples,
                               out |-> run.out, amplitude |-> gen.amplitude]
    /\ UNCHANGED <<osc_pc, samples_generated, render_vars, fmt_vars>>

NextEncode ==
    \/ ParseAmplitudeReject
    \/ ParseAmplitudeAccept
    \/ SetAmplitude
    \/ Encode

SpecEncode == InitEncode /\ [][NextEncode]_vars

\* value * AmplitudeDen - sample * scale * AmplitudeDen: how far, in
\* AmplitudeDen-ths of a quantization step, the stored integer lies from the
\* exact product sample * scale.
Deviation(stored, encoding) ==
    (stored.value - stored.sample.num * (FullScale(encoding) \div AmplitudeDen))
        * AmplitudeDen
    - stored.sample.num * (FullScale(encoding) % AmplitudeDen)

Abs(n) == IF n < 0 THEN -n ELSE n

(***************************************************************************)
(* C14.  For Int16, Int24 and Int32 output each encoded sample equals      *)
(* round(sample x fullScale): it is an integer nearest to the product,     *)
(* at most half a step away from it.                                       *)
(***************************************************************************)
C14_RoundToNearest ==
    osc_pc = "encoding" =>
        \A i \in DOMAIN last_call.out :
            InUnitRange(last_call.out[i].sample)
                => 2 * Abs(Deviation(last_call.out[i], last_call.encoding)) <= AmplitudeDen

(***************************************************************************)
(* C15.  After any sequence of init and set-amplitude calls the amplitude  *)
(* lies in [0, 1], and every integer-encoded sample lies within            *)
(* [-fullScale, fullScale] of its width.                                   *)
(***************************************************************************)
C15_AmplitudeBounded ==
    osc_pc = "encoding" =>
        /\ AmplitudeInUnitRange(gen.amplitude)
        /\ \A i \in DOMAIN last_call.out :
              /\ -FullScale(last_call.encoding) <= last_call.out[i].value
              /\ last_call.out[i].value <= FullScale(last_call.encoding)

\* |value| <= A * scale + 1, the magnitude of the stored integer is at most
\* amplitude * scale plus one step; in integers,
\* |value| - a * q <= (a * r + AmplitudeDen) \div AmplitudeDen, where
\* scale = q * AmplitudeDen + r and A = a / AmplitudeDen.
MagnitudeWithin(stored, amplitude, encoding) ==
    Abs(stored.value) - amplitude.num * (FullScale(encoding) \div AmplitudeDen)
        <= (amplitude.num * (FullScale(encoding) % AmplitudeDen) + AmplitudeDen)
               \div AmplitudeDen

(***************************************************************************)
(* C16.  For an amplitude A in [0, 1] and any number of generated samples, *)
(* every encoded Int16, Int24 or Int32 value, decoded by dividing by its   *)
(* full-scale constant, differs from A * sin(phase) by at most one         *)
(* quantization step, and its magnitude is at most A plus one step.        *)
(***************************************************************************)
C16_RoundTrip ==
    (osc_pc = "encoding" /\ AmplitudeInUnitRange(last_call.amplitude)) =>
        \A i \in DOMAIN last_call.out :
            /\ Abs(Deviation(last_call.out[i], last_call.encoding)) <= AmplitudeDen
            /\ MagnitudeWithin(last_call.out[i], last_call.amplitude, last_call.encoding)

\* A 24-bit buffer holding a negative sample whose product with the scale
\* has a fraction: -1/AmplitudeDen of full scale, stored as three bytes.
C16_Witness ==
    /\ osc_pc = "encoding"
    /\ last_call.encoding = "pcm24"
    /\ AmplitudeInUnitRange(last_call.amplitude)
    /\ \E i \in DOMAIN last_call.out :
          /\ last_call.out[i].sample = Real(-1)
          /\ last_call.out[i].value < 0
          /\ Len(last_call.out[i].bytes) = 3

(***************************************************************************)
(* Signal analysis of the loopback read tests (detect_frequency,           *)
(* check_amplitude) and their verdict.                                     *)
(*                                                                         *)
(* Arithmetic.  The ALSA and CoreAudio tests analyse int16_t samples with  *)
(* int32_t accumulators; the WASAPI test analyses float samples with       *)
(* double accumulators, and the model keeps a float sample as a whole      *)
(* number of thousandths.  Exact sums of squares do not fit 32 bits, so    *)
(* they are kept in two limbs, [hi, lo] standing for hi * 2^30 + lo with   *)
(* 0 <= lo < 2^30.  A double quotient is kept as [nan, num, den], the      *)
(* value num / den, nan marking 0.0 / 0.0 and the square root of a         *)
(* negative number.                                                        *)
(***************************************************************************)
Limb == 1073741824      \* 2^30

BigOf(t) == [hi |-> t \div Limb, lo |-> t % Limb]

BigAdd(a, b) ==
    [hi |-> a.hi + b.hi + (a.lo + b.lo) \div Limb, lo |-> (a.lo + b.lo) % Limb]

BigLess(a, b) == a.hi < b.hi \/ (a.hi = b.hi /\ a.lo < b.lo)

\* 1000000 * n in limbs: 1000000 = 15625 * 2^6 and 2^30 = 2^24 * 2^6.
MillionTimes(n) ==
    [hi |-> (15625 * n) \div 16777216, lo |-> ((15625 * n) % 16777216) * 64]

\* The int32_t a sum of squares has become when every addition wrapped
\* (two's complement): the exact sum modulo 2^32, as a signed number.
Int32Wrap(big) ==
    LET h == big.hi % 4
    IN  IF h >= 2 THEN (h - 4) * Limb + big.lo ELSE h * Limb + big.lo

\* Some addition into the int32_t accumulator overflowed: squares are not
\* negative, so this is the case exactly when the exact sum is 2^31 or more.
Int32Overflowed(big) == big.hi >= 2

\* sum += buffer[i] over buffer[lo..hi].  The sum is associative, so the
\* loop is summed by halves to keep the evaluation shallow.
RECURSIVE SumOf(_, _, _)
SumOf(buf, lo, hi) ==
    IF lo > hi THEN 0
    ELSE IF lo = hi THEN buf[lo]
    ELSE SumOf(buf, lo, (lo + hi) \div 2) + SumOf(buf, (lo + hi) \div 2 + 1, hi)

\* sum_sq += buffer[i] * buffer[i] over buffer[lo..hi], exactly.
RECURSIVE SumOfSquares(_, _, _)
SumOfSquares(buf, lo, hi) ==
    IF lo > hi THEN BigOf(0)
    ELSE IF lo = hi THEN BigOf(buf[lo] * buf[lo])
    ELSE BigAdd(SumOfSquares(buf, lo, (lo + hi) \div 2),
                SumOfSquares(buf, (lo + hi) \div 2 + 1, hi))

Quotient(n, d) == [nan |-> (d = 0 /\ n = 0), num |-> n, den |-> d]

\* The thresholds of check_amplitude: `rms < 1000', `fabs(mean) > 1000' on
\* int16_t samples, `rms < 0.01', `fabs(mean) > 0.1' on float samples.  In
\* the units of the model the mean square is compared with RmsSquared and
\* the mean with DcOffset.
RmsSquared(kind) == IF kind = "int16" THEN 1000000 ELSE 100
DcOffset(kind) == IF kind = "int16" THEN 1000 ELSE 100

\* rms < threshold, for rms = sqrt(mean_sq): false for a NaN, and a
\* negative mean square has no square root (NaN).
RmsBelow(mean_sq, kind) ==
    /\ ~mean_sq.nan
    /\ mean_sq.num >= 0
    /\ mean_sq.num \div mean_sq.den < RmsSquared(kind)

\* fabs(mean) > threshold: false for a NaN.
MeanAbove(mean, kind) ==
    /\ ~mean.nan
    /\ Abs(mean.num) > DcOffset(kind) * mean.den

(***************************************************************************)
(* check_amplitude.  On int16_t samples the accumulators are int32_t and   *)
(* sum_sq is what wrapping additions leave; on float samples they are      *)
(* double.  The result: the value returned, the mean square and the mean   *)
(* it computed, and whether an int32_t addition overflowed on the way.     *)
(***************************************************************************)
check_amplitude(buf, kind) ==
    LET num_samples == Len(buf)
        exact == SumOfSquares(buf, 1, num_samples)
        sum == SumOf(buf, 1, num_samples)
        sum_sq == IF kind = "int16" THEN Int32Wrap(exact)
                  ELSE exact.hi * Limb + exact.lo
        mean == Quotient(sum, num_samples)
        mean_sq == Quotient(sum_sq, num_samples)
    IN  [result |-> IF RmsBelow(mean_sq, kind) THEN 0
                    ELSE IF MeanAbove(mean, kind) THEN 0
                    ELSE 1,
         mean_sq |-> mean_sq,
         mean |-> mean,
         overflowed |-> (kind = "int16" /\ Int32Overflowed(exact))]

\* A variant of the crossing test that takes a zero sample for negative.
CrossingZeroNegative(prev_sample, curr_sample) ==
    \/ (prev_sample <= 0 /\ curr_sample > 0)
    \/ (prev_sample > 0 /\ curr_sample <= 0)

\* (prev_sample < 0 && curr_sample >= 0) || (prev_sample >= 0 && curr_sample < 0)
Crossing(prev_sample, curr_sample) ==
    \/ (prev_sample < 0 /\ curr_sample >= 0)
    \/ (prev_sample >= 0 /\ curr_sample < 0)

\* The loop of detect_frequency over the samples lo..hi (indices count
\* from 1 here).  prev_sample is buffer[0] at first and is given
\* curr_sample at the end of every iteration, so the iteration at i tests
\* buffer[i - 1] against buffer[i]; the iterations are counted by halves to
\* keep the evaluation shallow.
RECURSIVE ZeroCrossings(_, _, _)
ZeroCrossings(buf, lo, hi) ==
    IF lo > hi THEN 0
    ELSE IF lo = hi THEN (IF Crossing(buf[lo - 1], buf[lo]) THEN 1 ELSE 0)
    ELSE ZeroCrossings(buf, lo, (lo + hi) \div 2)
             + ZeroCrossings(buf, (lo + hi) \div 2 + 1, hi)

\* detect_frequency: (zero_crossings / 2.0) / (num_samples / sample_rate),
\* that is zero_crossings * sample_rate / (2 * num_samples).  With no
\* sample at all the loop does not run and the quotient is 0.0 / 0.0.
detect_frequency(buf, sample_rate) ==
    LET zero_crossings == ZeroCrossings(buf, 2, Len(buf))
    IN  [zero_crossings |-> zero_crossings,
         frequency |-> Quotient(zero_crossings * sample_rate, 2 * Len(buf))]

(***************************************************************************)
(* The loopback read tests: samples are captured, then main analyses them  *)
(* and returns.  The model captures a few samples rather than two seconds  *)
(* of them, out of a few values that reach every branch of the analysis;   *)
(* a capture of the generated tone is a run of its own.                    *)
(***************************************************************************)
EXPECTED_FREQUENCY == 440
FREQUENCY_TOLERANCE == 5
READ_DURATION == 2

LoopbackTests == {"alsa_loopback", "coreaudio_loopback", "wasapi_loopback"}

SampleKind(test) == IF test = "wasapi_loopback" THEN "float" ELSE "int16"

MaxCapture == 5         \* samples a capture is followed for
MaxChunk == 2           \* largest frame count of one read, packet or callback
TicksPerSecond == 2     \* polls (WASAPI) per second of capture
LowRate == 2            \* a sample rate so low that the target is reached

\* The rate at which a tone of EXPECTED_FREQUENCY advances a quarter turn
\* per sample.
ToneRate == 4 * EXPECTED_FREQUENCY

\* The rate the device runs at: snd_pcm_hw_params_set_rate_near and the mix
\* format give the rate of the device, whatever it is.
CaptureRates == {LowRate, ToneRate}

\* Captured values: full scale either way, silence, and a faint level
\* (int16_t; thousandths for float).
SampleAlphabet(kind) ==
    IF kind = "int16" THEN {-32767, 0, 512, 32767} ELSE {-500, 0, 5, 500}

\* The frames one read, packet or callback can deliver (left channel).
Chunks(kind) ==
    UNION {[1..n -> SampleAlphabet(kind)] : n \in 1..MaxChunk}

\* The tone the generator writes for EXPECTED_FREQUENCY at amplitude 1/2
\* and ToneRate, READ_DURATION seconds of it: process_i16 for int16_t,
\* process_f32 (thousandths) for float.
GeneratedTone(kind) ==
    [i \in 1..(READ_DURATION * ToneRate) |->
        LET g == [sine_generator_init_amplitude(EXPECTED_FREQUENCY, ToneRate,
                                                Real(AmplitudeDen \div 2))
                  EXCEPT !.phase = ((i - 1) * EXPECTED_FREQUENCY) % ToneRate]
        IN  IF kind = "int16"
            THEN TruncatingCast(Sample(g).num, FullScale("i16"))
            ELSE (1000 * Sample(g).num) \div AmplitudeDen]

\* A variant of the extraction loop that stores every frame it is given.
ExtractMonoUnbounded(all_samples, samples, i, capacity) == all_samples \o samples

\* for (i = 0; i < n && collected < capacity; i++)
\*     all_samples[collected++] = samples[i * channels];
\* from frame i on (frames count from 1 here); the samples collected so far
\* are the sequence all_samples.
RECURSIVE ExtractMono(_, _, _, _)
ExtractMono(all_samples, samples, i, capacity) ==
    IF i <= Len(samples) /\ Len(all_samples) < capacity
    THEN ExtractMono(Append(all_samples, samples[i]), samples, i + 1, capacity)
    ELSE all_samples

\* The state of a capture run when its loop is entered.  target is the
\* capacity of the accumulator, READ_DURATION * sample_rate; the format tag
\* is what the WASAPI test reads from the mix format; err is what the last
\* read returned, xruns the overruns logged, stream the state the reads and
\* snd_pcm_prepare left the stream in; calls_at_target
\* becomes 1 when frames arrive while the accumulator is full.
InitialCaptures(test) ==
    {[sample_rate |-> rate, target |-> READ_DURATION * rate,
      frames_read |-> 0, elapsed |-> 0, err |-> "none", xruns |-> 0,
      stream |-> "prepared",
      wFormatTag |-> tag, calls_at_target |-> 0, analysed |-> FALSE] :
        rate \in CaptureRates,
        tag \in IF test = "wasapi_loopback"
                THEN {WAVE_FORMAT_IEEE_FLOAT, WAVE_FORMAT_EXTENSIBLE}
                ELSE {0}}

InitAnalyze ==
    /\ IdleOsc
    /\ IdleFormat
    /\ program \in LoopbackTests
    /\ ctx \in InitialCaptures(program)
    /\ main_pc = "capturing"
    /\ exit_code = -1
    /\ buffer = << >>
    /\ tone_frames = 0
    /\ stop_raised = FALSE
    /\ cb_after_stop = FALSE
    /\ accesses = {}

\* What one iteration or callback of a capture leaves: the context, the
\* accumulator, the position of main and what the real-time side did.
Captured(c, all_samples, pc, acc) ==
    /\ Len(all_samples) <= MaxCapture \/ all_samples = buffer
    /\ ctx' = c
    /\ buffer' = all_samples
    /\ main_pc' = pc
    /\ accesses' = accesses \cup acc
    /\ UNCHANGED <<program, exit_code, tone_frames, stop_raised, cb_after_stop,
                   osc_vars, fmt_vars>>

\* ---- ALSA loopback read test ----
\* One iteration of while (frames_read < total_frames) in which
\* snd_pcm_readi delivers err frames.
AlsaRead ==
    /\ program = "alsa_loopback" /\ main_pc = "capturing"
    /\ ctx.frames_read < ctx.target
    /\ \E samples \in Chunks("int16") :
          Captured([ctx EXCEPT !.frames_read = @ + Len(samples),
                               !.err = "frames", !.stream = "running"],
                   ExtractMono(buffer, samples, 1, ctx.target), "capturing", {})

\* A variant of the -EPIPE branch that leaves the loop as the branch for
\* the other errors does.
overrun_breaks(c) ==
    [ctx |-> [c EXCEPT !.err = "EPIPE", !.stream = "xrun"], pc |-> "captured"]

\* if (err == -EPIPE) { fprintf(stderr, "Buffer overrun\n");
\*                      snd_pcm_prepare(pcm_handle); continue; }
\* The overruns logged are counted modulo 2: what matters is that one more
\* was logged, not how many.
overrun_recovery(c) ==
    [ctx |-> [c EXCEPT !.err = "EPIPE", !.xruns = (@ + 1) % 2,
                       !.stream = "prepared"],
     pc |-> "capturing"]

\* One iteration in which snd_pcm_readi returns -EPIPE.
AlsaReadOverrun ==
    /\ program = "alsa_loopback" /\ main_pc = "capturing"
    /\ ctx.frames_read < ctx.target
    /\ Captured(overrun_recovery(ctx).ctx, buffer, overrun_recovery(ctx).pc, {})

\* snd_pcm_readi fails with another error: break.
AlsaReadError ==
    /\ program = "alsa_loopback" /\ main_pc = "capturing"
    /\ ctx.frames_read < ctx.target
    /\ Captured([ctx EXCEPT !.err = "failed", !.stream = "failed"],
                buffer, "captured", {})

AlsaReadDone ==
    /\ program = "alsa_loopback" /\ main_pc = "capturing"
    /\ ~(ctx.frames_read < ctx.target)
    /\ Captured(ctx, buffer, "captured", {})

\* ---- WASAPI loopback read test ----
\* One iteration of while ((GetTickCount() - startTime) < duration_ms):
\* Sleep, then the packets waiting are drained; their frames are kept only
\* under the base tag WAVE_FORMAT_IEEE_FLOAT.  No packet waiting, or a
\* failed GetBuffer, stores nothing and the outer loop goes on.
WasapiCapturePoll ==
    /\ program = "wasapi_loopback" /\ main_pc = "capturing"
    /\ ctx.elapsed < READ_DURATION * TicksPerSecond
    /\ \E samples \in Chunks("float") \cup {<< >>} :
          Captured([ctx EXCEPT !.elapsed = @ + 1,
                               !.calls_at_target =
                                   IF Len(buffer) = ctx.target /\ samples # << >>
                                   THEN 1 ELSE @],
                   IF ctx.wFormatTag = WAVE_FORMAT_IEEE_FLOAT
                   THEN ExtractMono(buffer, samples, 1, ctx.target)
                   ELSE buffer,
                   "capturing", {})

\* GetNextPacketSize fails at the top of an iteration: break.
WasapiCaptureFail ==
    /\ program = "wasapi_loopback" /\ main_pc = "capturing"
    /\ ctx.elapsed < READ_DURATION * TicksPerSecond
    /\ Captured([ctx EXCEPT !.elapsed = @ + 1, !.stream = "failed"],
                buffer, "captured", {})

WasapiCaptureDone ==
    /\ program = "wasapi_loopback" /\ main_pc = "capturing"
    /\ ~(ctx.elapsed < READ_DURATION * TicksPerSecond)
    /\ Captured(ctx, buffer, "captured", {})

\* ---- CoreAudio loopback read test ----
\* input_callback: a buffer is allocated, AudioUnitRender fills it or
\* fails, the left channel is kept, the buffer is freed.
InputCallback ==
    /\ program = "coreaudio_loopback" /\ main_pc = "capturing"
    /\ \E samples \in Chunks("int16"), err \in {"noErr", "failed"} :
          Captured([ctx EXCEPT !.calls_at_target =
                                   IF Len(buffer) = ctx.target /\ err = "noErr"
                                   THEN 1 ELSE @],
                   IF err = "noErr"
                   THEN ExtractMono(buffer, samples, 1, ctx.target)
                   ELSE buffer,
                   "capturing",
                   {Access("rt", "malloc", "bufferList"),
                    Access("rt", "free", "bufferList")})

\* "Monitor progress": for (i = 0; i <= READ_DURATION; i++) sleep(1);
CaptureMonitorSleep ==
    /\ program = "coreaudio_loopback" /\ main_pc = "capturing"
    /\ ctx.elapsed <= READ_DURATION
    /\ Captured([ctx EXCEPT !.elapsed = @ + 1], buffer, "capturing",
                {Access("main", "read", "samples_collected")})

\* AudioOutputUnitStop once the monitor loop is over.
CaptureStop ==
    /\ program = "coreaudio_loopback" /\ main_pc = "capturing"
    /\ ~(ctx.elapsed <= READ_DURATION)
    /\ Captured(ctx, buffer, "captured", {})

\* The whole capture is the generated tone, looped back: the reads, packets
\* or callbacks of a run at ToneRate deliver it up to the target.
CaptureTone ==
    /\ program \in LoopbackTests /\ main_pc = "capturing"
    /\ buffer = << >> /\ ctx.frames_read = 0 /\ ctx.elapsed = 0
    /\ ctx.sample_rate = ToneRate
    /\ ctx.wFormatTag # WAVE_FORMAT_EXTENSIBLE
    /\ ctx' = [ctx EXCEPT !.frames_read = ctx.target, !.err = "frames",
                          !.stream = "running"]
    /\ buffer' = GeneratedTone(SampleKind(program))
    /\ UNCHANGED <<program, main_pc, exit_code, tone_frames, stop_raised,
                   cb_after_stop, accesses, osc_vars, fmt_vars>>

\* |detected_freq - EXPECTED_FREQUENCY| > FREQUENCY_TOLERANCE as main
\* computes it: false for a NaN.
FrequencyMismatch(frequency) ==
    /\ ~frequency.nan
    /\ Abs(frequency.num - EXPECTED_FREQUENCY * frequency.den)
           > FREQUENCY_TOLERANCE * frequency.den

\* What main leaves once the analysis is done: the results, and which of
\* the analysis functions it called.
Analysed(amplitude, detected, test_passed, called) ==
    [f \in DOMAIN ctx \cup {"amplitude", "detected", "test_passed", "called"} |->
        CASE f = "analysed" -> TRUE
          [] f = "called" -> called
          [] f = "amplitude" -> amplitude
          [] f = "detected" -> detected
          [] f = "test_passed" -> test_passed
          [] OTHER -> ctx[f]]

\* The analysis of the ALSA and CoreAudio tests.  An overflow of the
\* int32_t accumulators is undefined behaviour: the additions wrap, or the
\* build traps and the process is aborted.
AnalyzeInt16 ==
    /\ program \in {"alsa_loopback", "coreaudio_loopback"}
    /\ main_pc = "captured"
    /\ LET amplitude == check_amplitude(buffer, "int16")
           detected == detect_frequency(buffer, ctx.sample_rate)
           test_passed == IF amplitude.result = 0 THEN 0
                          ELSE IF FrequencyMismatch(detected.frequency) THEN 0
                          ELSE 1
       IN  \/ /\ ctx' = Analysed(amplitude, detected, test_passed,
                                   {"check_amplitude", "detect_frequency"})
              /\ main_pc' = "closed"
              /\ exit_code' = IF test_passed = 1 THEN 0 ELSE 1
           \/ /\ amplitude.overflowed
              /\ ctx' = ctx
              /\ main_pc' = "aborted"
              /\ exit_code' = 134
    /\ UNCHANGED <<program, buffer, tone_frames, stop_raised, cb_after_stop,
                   accesses, osc_vars, fmt_vars>>

\* The analysis of the WASAPI test: nothing captured is a failure.
AnalyzeFloat ==
    /\ program = "wasapi_loopback"
    /\ main_pc = "captured"
    /\ LET amplitude == check_amplitude(buffer, "float")
           detected == detect_frequency(buffer, ctx.sample_rate)
           test_passed == IF Len(buffer) > 0
                          THEN IF amplitude.result = 0 THEN 0
                               ELSE IF FrequencyMismatch(detected.frequency) THEN 0
                               ELSE 1
                          ELSE 0
       IN  /\ ctx' = Analysed(amplitude, detected, test_passed,
                                IF Len(buffer) > 0
                                THEN {"check_amplitude", "detect_frequency"}
                                ELSE {})
           /\ main_pc' = "closed"
           /\ exit_code' = IF test_passed = 1 THEN 0 ELSE 1
    /\ UNCHANGED <<program, buffer, tone_frames, stop_raised, cb_after_stop,
                   accesses, osc_vars, fmt_vars>>

NextAnalyze ==
    \/ AlsaRead
    \/ AlsaReadOverrun
    \/ AlsaReadError
    \/ AlsaReadDone
    \/ WasapiCapturePoll
    \/ WasapiCaptureFail
    \/ WasapiCaptureDone
    \/ InputCallback
    \/ CaptureMonitorSleep
    \/ CaptureStop
    \/ CaptureTone
    \/ AnalyzeInt16
    \/ AnalyzeFloat

SpecAnalyze == InitAnalyze /\ [][NextAnalyze]_vars

\* |detected - expected| <= tolerance, in real numbers.
WithinTolerance(frequency) ==
    /\ ~frequency.nan
    /\ Abs(frequency.num - EXPECTED_FREQUENCY * frequency.den)
           <= FREQUENCY_TOLERANCE * frequency.den

\* C17: a completed run of a loopback test ends with exit code 0 exactly
\* when the detected frequency is within the tolerance of the expected one
\* and the amplitude check passed, and with exit code 1 otherwise.
C17_VerdictMatchesChecks ==
    (program \in LoopbackTests /\ main_pc = "closed") =>
        /\ exit_code \in {0, 1}
        /\ exit_code = 0 <=> (/\ WithinTolerance(ctx.detected.frequency)
                              /\ ctx.amplitude.result = 1)

\* The true RMS of the samples is below the silence threshold.
TrueRmsBelow(buf, kind) ==
    BigLess(SumOfSquares(buf, 1, Len(buf)),
            IF kind = "int16" THEN MillionTimes(Len(buf))
            ELSE BigOf(RmsSquared(kind) * Len(buf)))

\* The magnitude of the true mean of the samples is above the DC threshold.
TrueMeanAbove(buf, kind) ==
    Abs(SumOf(buf, 1, Len(buf))) > DcOffset(kind) * Len(buf)

\* C18: whatever was captured, the amplitude check fails exactly when the
\* true RMS of the samples is below the silence threshold or the magnitude
\* of their true mean is above the DC threshold.
C18_AmplitudeCheckExact ==
    (program \in LoopbackTests /\ main_pc = "closed" /\ Len(buffer) > 0) =>
        (ctx.amplitude.result = 0 <=>
            \/ TrueRmsBelow(buffer, SampleKind(program))
            \/ TrueMeanAbove(buffer, SampleKind(program)))

\* The adjacent pairs of samples whose signs differ, zero being
\* non-negative; a pair is named by the index of its second sample.
SignChanges(buf) ==
    {i \in 2..Len(buf) : (buf[i - 1] >= 0) # (buf[i] >= 0)}

\* C19: detect_frequency counts one crossing for each adjacent pair of
\* samples whose signs differ, zero counting as non-negative, and returns
\* (crossings / 2) / (length / sample rate).
C19_CrossingsAndFrequency ==
    (program \in LoopbackTests /\ main_pc = "closed") =>
        /\ ctx.detected.zero_crossings = Cardinality(SignChanges(buffer))
        /\ ctx.detected.frequency.nan <=> (Len(buffer) = 0)
        /\ ctx.detected.frequency.num
               = Cardinality(SignChanges(buffer)) * ctx.sample_rate
        /\ ctx.detected.frequency.den = 2 * Len(buffer)

\* A capture analysed in which a zero sample is followed by a negative one
\* and the signal comes back up.
C19_Witness ==
    /\ program \in LoopbackTests /\ main_pc = "closed"
    /\ Len(buffer) <= MaxCapture
    /\ \E i \in 2..Len(buffer) : buffer[i - 1] = 0 /\ buffer[i] < 0
    /\ ctx.detected.zero_crossings >= 2

\* The capture is the generated tone.
ToneCaptured ==
    /\ program \in LoopbackTests
    /\ Len(buffer) = READ_DURATION * ToneRate
    /\ buffer = GeneratedTone(SampleKind(program))

\* The RMS that was computed is a number above the silence threshold.
RmsAbove(mean_sq, kind) ==
    /\ ~mean_sq.nan
    /\ mean_sq.num >= 0
    /\ \/ mean_sq.num \div mean_sq.den > RmsSquared(kind)
       \/ /\ mean_sq.num \div mean_sq.den = RmsSquared(kind)
          /\ mean_sq.num % mean_sq.den > 0

\* C20: the analysis of the generated tone ends Passed: no step of it is
\* undefined, the frequency detected is within 5 Hz of 440 Hz, the RMS
\* computed is above the silence threshold and the magnitude of the mean
\* computed is below the DC threshold.
C20_GeneratedTonePasses ==
    (ToneCaptured /\ main_pc \in {"closed", "aborted"}) =>
        /\ main_pc = "closed"
        /\ exit_code = 0
        /\ ~ctx.amplitude.overflowed
        /\ WithinTolerance(ctx.detected.frequency)
        /\ RmsAbove(ctx.amplitude.mean_sq, SampleKind(program))
        /\ ~ctx.amplitude.mean.nan
        /\ Abs(ctx.amplitude.mean.num)
               < DcOffset(SampleKind(program)) * ctx.amplitude.mean.den

\* The samples stored before are still there, in place.
IsPrefix(before, after) ==
    /\ Len(before) <= Len(after)
    /\ SubSeq(after, 1, Len(before)) = before

\* A step of a capture run only appends to the accumulator, and stores
\* nothing once the accumulator holds its target count.
AppendOnly ==
    program \in LoopbackTests =>
        /\ IsPrefix(buffer, buffer')
        /\ (Len(buffer) = ctx.target => buffer' = buffer)

\* C21: the capture accumulator never holds more than duration x sampleRate
\* samples, samples are only appended to it, and once the target count is
\* reached nothing more is stored.
C21_AccumulatorBounded ==
    /\ [](program \in LoopbackTests => Len(buffer) <= ctx.target)
    /\ [][AppendOnly]_vars

\* Frames arrived after the accumulator of a run had been filled chunk by
\* chunk to its target.
C21_Witness ==
    /\ program \in LoopbackTests
    /\ ctx.sample_rate = LowRate
    /\ Len(buffer) = ctx.target
    /\ ctx.calls_at_target = 1

\* What a real-time callback must not do.
Forbidden == {"malloc", "free", "lock", "block"}

\* C22: no real-time callback allocates or frees memory, takes a lock or
\* blocks; every buffer it uses exists before the stream starts.
C22_CallbacksRealTimeSafe ==
    \A a \in accesses : a.ctx = "rt" => a.op \notin Forbidden

\* A read of the ALSA capture loop has just reported an overrun.
OverrunReported ==
    program = "alsa_loopback" /\ ctx' # ctx /\ ctx'.err = "EPIPE"

\* The overrun was logged, the stream was reset and the loop goes on.
OverrunHandled ==
    /\ ctx'.xruns # ctx.xruns
    /\ ctx'.stream = "prepared"
    /\ main_pc' = "capturing"
    /\ buffer' = buffer

FrequencyInputs == {Real(f) : f \in FrequencyArgs} \cup {NaN}

DurationInputs == {-1, 0, 1, 60, 61, 3600, 3601}

\* The generators that take <frequency> <duration>, and those that take
\* -f <frequency> -a <amplitude> and play until they are stopped.
DurationPrograms == {"coreaudio_app", "jack", "jack_macos", "alsa_app", "wasapi_app"}
AmplitudePrograms == {"coreaudio_device", "wasapi_device"}

\* The arguments a generator can be started with.  The generators without
\* an amplitude option play at 0.5; those without a duration have none.
GeneratorArgs(p) ==
    IF p \in DurationPrograms
    THEN {[frequency |-> f, duration |-> d, amplitude |-> Real(AmplitudeDen \div 2)] :
             f \in FrequencyInputs, d \in DurationInputs}
    ELSE {[frequency |-> f, duration |-> 0, amplitude |-> a] :
             f \in FrequencyInputs, a \in AmplitudeArgs}

\* if (frequency <= 0 || frequency > 20000) -> return 1.  Both comparisons
\* are false for a NaN.
FrequencyRejected(frequency) ==
    \/ (~frequency.nan /\ frequency.num <= 0)
    \/ (~frequency.nan /\ frequency.num > 20000)

\* if (duration <= 0 || duration > 60) -> return 1; the JACK generator has
\* if (duration < 0 || duration > 3600).
DurationRejected(p, duration) ==
    IF p = "jack"
    THEN duration < 0 \/ duration > 3600
    ELSE duration <= 0 \/ duration > 60

ArgsRejected(p, args) ==
    IF p \in DurationPrograms
    THEN FrequencyRejected(args.frequency) \/ DurationRejected(p, args.duration)
    ELSE FrequencyRejected(args.frequency) \/ ~ValidAmplitude(args.amplitude)

InitArgs ==
    /\ IdleOsc
    /\ IdleFormat
    /\ program \in Programs
    /\ ctx \in GeneratorArgs(program)
    /\ main_pc = "args"
    /\ exit_code = -1
    /\ buffer = << >>
    /\ tone_frames = 0
    /\ stop_raised = FALSE
    /\ cb_after_stop = FALSE
    /\ accesses = {}

\* An argument is refused: main returns 1 before anything is opened.
GeneratorReject ==
    /\ program \in Programs /\ main_pc = "args"
    /\ ArgsRejected(program, ctx)
    /\ main_pc' = "rejected"
    /\ exit_code' = 1
    /\ UNCHANGED <<program, ctx, buffer, tone_frames, stop_raised, cb_after_stop,
                   accesses, osc_vars, fmt_vars>>

\* The arguments pass: the backend is opened (jack_client_open,
\* snd_pcm_open, CoInitialize, AudioComponentFindNext).
GeneratorOpen ==
    /\ program \in Programs /\ main_pc = "args"
    /\ ~ArgsRejected(program, ctx)
    /\ main_pc' = "opened"
    /\ accesses' = accesses \cup {Access("main", "open", "backend")}
    /\ UNCHANGED <<program, ctx, exit_code, buffer, tone_frames, stop_raised,
                   cb_after_stop, osc_vars, fmt_vars>>

NextArgs ==
    \/ GeneratorReject
    \/ GeneratorOpen

SpecArgs == InitArgs /\ [][NextArgs]_vars

\* The frequency is a number in (0, 20000].
FrequencyInRange(frequency) ==
    ~frequency.nan /\ 0 < frequency.num /\ frequency.num <= 20000

\* The duration is in (0, 60], or 0 where infinite playback is supported.
DurationInRange(p, duration) ==
    \/ (0 < duration /\ duration <= 60)
    \/ (p = "jack" /\ duration = 0)

\* C24: a generator whose frequency is outside (0, 20000], whose duration
\* is outside (0, 60] (0 excepted where playback can be infinite) or whose
\* amplitude is outside [0, 1] opens no backend and exits with code 1.
C24_OutOfRangeRejected ==
    /\ main_pc = "rejected" => (exit_code = 1 /\ accesses = {})
    /\ main_pc = "opened" =>
          /\ FrequencyInRange(ctx.frequency)
          /\ program \in DurationPrograms => DurationInRange(program, ctx.duration)
          /\ AmplitudeInUnitRange(ctx.amplitude)

\* The generator's loop was left by a break, that is after a backend call
\* failed: it is over although its own exit condition does not hold.
EndedOnBackendError ==
    /\ main_pc = "closed"
    /\ \/ /\ program \in {"alsa_app", "wasapi_app"}
          /\ ctx.frames_written < ctx.total_frames
       \/ /\ program = "wasapi_device"
          /\ ctx.g_running # 0

\* C25: a generator run that ends because the audio backend reported an
\* error exits with code 1, never with code 0.
C25_BackendErrorExitsOne == EndedOnBackendError => exit_code = 1

\* C29: in the ALSA playback loop frames_written equals the number of
\* frames the device accepted.
C29_FramesWrittenAccepted ==
    program = "alsa_app" => ctx.frames_written = tone_frames

\* C27: a capture run that ends with no sample collected is reported Failed
\* with exit code 1, and the empty buffer is not analysed: neither
\* check_amplitude nor detect_frequency is called on it.
C27_EmptyCaptureFails ==
    (program \in LoopbackTests /\ main_pc = "closed" /\ Len(buffer) = 0) =>
        /\ exit_code = 1
        /\ ctx.called = {}

\* C28: while check_amplitude accumulates a 16-bit capture, neither the
\* sum nor the sum of squares leaves the range of int32_t.
C28_AccumulatorsInRange ==
    (program \in {"alsa_loopback", "coreaudio_loopback"} /\ main_pc = "captured") =>
        /\ ~Int32Overflowed(SumOfSquares(buffer, 1, Len(buffer)))
        /\ -2147483647 - 1 <= SumOf(buffer, 1, Len(buffer))
        /\ SumOf(buffer, 1, Len(buffer)) <= 2147483647

\* One iteration of the ALSA capture loop, whatever snd_pcm_readi returns.
AlsaReadIteration == AlsaRead \/ AlsaReadOverrun \/ AlsaReadError

\* One iteration of the WASAPI capture loop.
WasapiCaptureIteration == WasapiCapturePoll \/ WasapiCaptureFail

\* The loops keep iterating and time passes; what a read returns is up to
\* the device.
CaptureFairness ==
    /\ WF_vars(AlsaReadIteration) /\ WF_vars(AlsaReadDone)
    /\ WF_vars(WasapiCaptureIteration) /\ WF_vars(WasapiCaptureDone)
    /\ WF_vars(CaptureMonitorSleep) /\ WF_vars(CaptureStop)

SpecAnalyzeLive == InitAnalyze /\ [][NextAnalyze]_vars /\ CaptureFairness

\* C30: every capture loop terminates; overruns cannot keep it running
\* forever.
C30_CaptureTerminates ==
    (program \in LoopbackTests /\ main_pc = "capturing")
        ~> (main_pc # "capturing")

(***************************************************************************)
(* The control API (vcard_init, vcard_cleanup, vcard_list_devices) called  *)
(* from several threads at once.  The library state is the flag            *)
(* `initialized', a plain static bool: a thread reads or writes it in one  *)
(* step, a concurrent read sees the value before or after a concurrent     *)
(* write, and the steps of different threads interleave freely.            *)
(***************************************************************************)
VCARD_SUCCESS == 0

ApiThreads == 3

Threads == 1..ApiThreads

ApiCalls == {"vcard_init", "vcard_cleanup", "vcard_list_devices"}

\* A variant of vcard_init that reports a library already initialised.
vcard_init_return_in_use(seen) == IF seen THEN -4 ELSE VCARD_SUCCESS

\* vcard_init returns VCARD_SUCCESS on both branches.
vcard_init_return(seen) == VCARD_SUCCESS

\* A thread about to make its call: not yet returned (result 1 stands for
\* no result yet), and not yet overtaken by a write of another thread.
ThreadCalling(call) ==
    [call |-> call, pc |-> "ready", seen |-> FALSE, result |-> 1, raced |-> FALSE]

InitApi ==
    /\ IdleOsc
    /\ IdleFormat
    /\ program = "vcard_client"
    /\ \E initialized \in BOOLEAN, calls \in [Threads -> ApiCalls] :
           ctx = [initialized |-> initialized, initially |-> initialized,
                  threads |-> [t \in Threads |-> ThreadCalling(calls[t])]]
    /\ main_pc = "calling"
    /\ exit_code = -1
    /\ buffer = << >>
    /\ tone_frames = 0
    /\ stop_raised = FALSE
    /\ cb_after_stop = FALSE
    /\ accesses = {}

\* The threads as a write of thread t leaves them: t itself as given, and
\* every thread that has tested the flag but not yet acted on it overtaken.
AfterWrite(t, self) ==
    [u \in Threads |->
        IF u = t THEN self
        ELSE IF ctx.threads[u].pc = "checked"
             THEN [ctx.threads[u] EXCEPT !.raced = TRUE]
             ELSE ctx.threads[u]]

ApiStep(c, acc) ==
    /\ ctx' = c
    /\ accesses' = accesses \cup acc
    /\ UNCHANGED <<program, main_pc, exit_code, buffer, tone_frames, stop_raised,
                   cb_after_stop, osc_vars, fmt_vars>>

\* vcard_init: if (initialized)
VcardInitTest(t) ==
    /\ program = "vcard_client"
    /\ ctx.threads[t].call = "vcard_init" /\ ctx.threads[t].pc = "ready"
    /\ ApiStep([ctx EXCEPT !.threads[t].pc = "checked",
                           !.threads[t].seen = ctx.initialized],
               {Access(t, "read", "initialized")})

\* vcard_init: return VCARD_SUCCESS, after initialized = true when the
\* flag was seen clear.
VcardInitReturn(t) ==
    /\ program = "vcard_client"
    /\ ctx.threads[t].call = "vcard_init" /\ ctx.threads[t].pc = "checked"
    /\ LET self == [ctx.threads[t] EXCEPT
                       !.pc = "returned",
                       !.result = vcard_init_return(ctx.threads[t].seen)]
       IN  IF ctx.threads[t].seen
           THEN ApiStep([ctx EXCEPT !.threads[t] = self], {})
           ELSE ApiStep([ctx EXCEPT !.initialized = TRUE,
                                    !.threads = AfterWrite(t, self)],
                        {Access(t, "write", "initialized")})

\* vcard_cleanup: initialized = false;
VcardCleanup(t) ==
    /\ program = "vcard_client"
    /\ ctx.threads[t].call = "vcard_cleanup" /\ ctx.threads[t].pc = "ready"
    /\ ApiStep([ctx EXCEPT !.initialized = FALSE,
                           !.threads = AfterWrite(t,
                               [ctx.threads[t] EXCEPT !.pc = "returned",
                                                      !.result = VCARD_SUCCESS])],
               {Access(t, "write", "initialized")})

\* vcard_list_devices: *count = 0; return VCARD_SUCCESS;
VcardListDevices(t) ==
    /\ program = "vcard_client"
    /\ ctx.threads[t].call = "vcard_list_devices" /\ ctx.threads[t].pc = "ready"
    /\ ApiStep([ctx EXCEPT !.threads[t].pc = "returned",
                           !.threads[t].result = VCARD_SUCCESS], {})

NextApi ==
    \/ \E t \in Threads : VcardInitTest(t)
    \/ \E t \in Threads : VcardInitReturn(t)
    \/ \E t \in Threads : VcardCleanup(t)
    \/ \E t \in Threads : VcardListDevices(t)

SpecApi == InitApi /\ [][NextApi]_vars

\* The orders in which the calls can be made one after the other.
CallOrders ==
    {order \in [Threads -> Threads] :
        \A t, u \in Threads : order[t] = order[u] => t = u}

\* The calls made one at a time in the given order, from the i-th on: the
\* flag they leave and the result of each.
RECURSIVE Sequential(_, _, _, _)
Sequential(order, i, initialized, results) ==
    IF i > ApiThreads THEN [initialized |-> initialized, results |-> results]
    ELSE LET t == order[i]
             call == ctx.threads[t].call
         IN  CASE call = "vcard_init" ->
                    Sequential(order, i + 1, TRUE,
                               [results EXCEPT ![t] = vcard_init_return(initialized)])
               [] call = "vcard_cleanup" ->
                    Sequential(order, i + 1, FALSE,
                               [results EXCEPT ![t] = VCARD_SUCCESS])
               [] call = "vcard_list_devices" ->
                    Sequential(order, i + 1, initialized,
                               [results EXCEPT ![t] = VCARD_SUCCESS])

AllReturned == \A t \in Threads : ctx.threads[t].pc = "returned"

\* C26: whatever the interleaving of concurrent vcard_init, vcard_cleanup
\* and vcard_list_devices calls, every call returns what it returns in some
\* sequential order of the calls, and the initialized flag ends as that
\* order leaves it.
C26_ControlApiThreadSafe ==
    (program = "vcard_client" /\ AllReturned) =>
        \E order \in CallOrders :
            LET seq == Sequential(order, 1, ctx.initially, [t \in Threads |-> 1])
            IN  /\ seq.initialized = ctx.initialized
                /\ \A t \in Threads : seq.results[t] = ctx.threads[t].result

\* All calls have returned, and one vcard_init that saw the flag clear set
\* it after another thread had written it in between.
C26_Witness ==
    /\ program = "vcard_client" /\ AllReturned
    /\ \E t \in Threads :
          /\ ctx.threads[t].call = "vcard_init"
          /\ ~ctx.threads[t].seen
          /\ ctx.threads[t].raced
    /\ \E u \in Threads : ctx.threads[u].call = "vcard_cleanup"

====
